---- MODULE Spec2Model ----
(***************************************************************************)
(* Student services platform: the pricing service, the order-creation      *)
(* conversation of the Telegram bot, the admin status endpoint and the     *)
(* payment service, modelled from the Python sources.                      *)
(*                                                                         *)
(* Prices are Python floats (IEEE-754 binary64).  They are modelled        *)
(* bit-exactly: a float is a record [m, e] of a 53-bit significand (a      *)
(* little-endian sequence of 12-bit limbs) and a binary exponent, and      *)
(* multiplication, literal parsing and round(x, 2) round as CPython does.  *)
(***************************************************************************)
EXTENDS Integers, Sequences, FiniteSets, TLC

(***************************************************************************)
(* Natural numbers of arbitrary size: little-endian sequences of limbs.    *)
(***************************************************************************)
LimbBits == 6 + 6
LimbBase == 2 ^ LimbBits

Limb(x, i) == IF i \in 1..Len(x) THEN x[i] ELSE 0

RECURSIVE IntToBig(_)
IntToBig(n) == IF n = 0 THEN << >> ELSE <<n % LimbBase>> \o IntToBig(n \div LimbBase)

RECURSIVE Trim(_)
Trim(x) ==
    IF Len(x) = 0 THEN x
    ELSE IF x[Len(x)] = 0 THEN Trim(SubSeq(x, 1, Len(x) - 1)) ELSE x

RECURSIVE ToInt(_)
ToInt(x) == IF Len(x) = 0 THEN 0 ELSE x[1] + LimbBase * ToInt(Tail(x))

RECURSIVE MulSmallRec(_, _, _, _)
MulSmallRec(x, k, i, carry) ==
    IF i > Len(x) THEN IntToBig(carry)
    ELSE LET t == x[i] * k + carry
         IN  <<t % LimbBase>> \o MulSmallRec(x, k, i + 1, t \div LimbBase)

MulSmall(x, k) == Trim(MulSmallRec(x, k, 1, 0))

RECURSIVE ColSum(_, _, _, _)
ColSum(a, b, k, i) ==
    IF i > Len(a) THEN 0
    ELSE Limb(a, i) * Limb(b, k + 1 - i) + ColSum(a, b, k, i + 1)

RECURSIVE BigMulRec(_, _, _, _)
BigMulRec(a, b, k, carry) ==
    IF k > Len(a) + Len(b) THEN IntToBig(carry)
    ELSE LET t == ColSum(a, b, k, 1) + carry
         IN  <<t % LimbBase>> \o BigMulRec(a, b, k + 1, t \div LimbBase)

BigMul(a, b) == Trim(BigMulRec(a, b, 1, 0))

RECURSIVE IntBitLen(_)
IntBitLen(n) == IF n = 0 THEN 0 ELSE 1 + IntBitLen(n \div 2)

BitLen(x) ==
    LET t == Trim(x)
    IN  IF Len(t) = 0 THEN 0 ELSE LimbBits * (Len(t) - 1) + IntBitLen(t[Len(t)])

\* bit k (counted from 0) of x
Bit(x, k) == (Limb(x, (k \div LimbBits) + 1) \div (2 ^ (k % LimbBits))) % 2

\* no bit below bit k is set
LowZero(x, k) ==
    /\ \A i \in 1..(k \div LimbBits) : Limb(x, i) = 0
    /\ Limb(x, (k \div LimbBits) + 1) % (2 ^ (k % LimbBits)) = 0

\* floor(x / 2^s)
ShrFloor(x, s) ==
    LET q == s \div LimbBits
        r == s % LimbBits
        n == IF Len(x) > q THEN Len(x) - q ELSE 0
    IN  Trim([j \in 1..n |->
                (Limb(x, j + q) \div (2 ^ r))
                + (Limb(x, j + q + 1) % (2 ^ r)) * (2 ^ (LimbBits - r))])

\* x * 2^s
ShlBits(x, s) ==
    [j \in 1..(s \div LimbBits) |-> 0] \o MulSmall(x, 2 ^ (s % LimbBits))

RECURSIVE Inc(_)
Inc(x) ==
    IF Len(x) = 0 THEN <<1>>
    ELSE IF x[1] + 1 < LimbBase THEN <<x[1] + 1>> \o Tail(x)
    ELSE <<0>> \o Inc(Tail(x))

\* x / 2^s rounded to the nearest integer, ties to even (s >= 1)
RoundShift(x, s) ==
    LET q      == ShrFloor(x, s)
        half   == Bit(x, s - 1) = 1
        sticky == ~LowZero(x, s - 1)
        odd    == Limb(q, 1) % 2 = 1
    IN  IF half /\ (sticky \/ odd) THEN Inc(q) ELSE q

\* long division by a small integer: <<quotient, remainder>>
RECURSIVE DivSmallRec(_, _, _, _)
DivSmallRec(x, d, i, rem) ==
    IF i = 0 THEN << << >>, rem >>
    ELSE LET t    == rem * LimbBase + x[i]
             rest == DivSmallRec(x, d, i - 1, t % d)
         IN  << Append(rest[1], t \div d), rest[2] >>

DivSmall(x, d) ==
    LET r == DivSmallRec(x, d, Len(x), 0) IN << Trim(r[1]), r[2] >>

(***************************************************************************)
(* Python floats: positive finite binary64 values m * 2^e with             *)
(* 2^52 <= m < 2^53.                                                       *)
(***************************************************************************)
MantBits == 53

\* the float nearest to x * 2^e (round half to even), x > 0
MakeDouble(x, e) ==
    LET L == BitLen(x)
    IN  IF L <= MantBits
        THEN [m |-> Trim(ShlBits(x, MantBits - L)), e |-> e - (MantBits - L)]
        ELSE LET s == L - MantBits
                 r == RoundShift(x, s)
             IN  IF BitLen(r) > MantBits
                 THEN [m |-> ShrFloor(r, 1), e |-> e + s + 1]
                 ELSE [m |-> r, e |-> e + s]

\* a * b on floats
FMul(a, b) == MakeDouble(BigMul(a.m, b.m), a.e + b.e)

\* int -> float
FromInt(n) == MakeDouble(IntToBig(n), 0)

\* the float denoted by the decimal n / d (d a power of ten): what the
\* Python parser yields for a literal such as 1.2 (n = 12, d = 10)
GuardBits == 64
ParseDecimal(n, d) ==
    LET qr == DivSmall(ShlBits(IntToBig(n), GuardBits), d)
        q2 == MulSmall(qr[1], 2)
        qs == IF qr[2] # 0 THEN Inc(q2) ELSE q2
    IN  MakeDouble(qs, 0 - (GuardBits + 1))

\* round(x, 2) in hundredths: CPython rounds the exact binary value of x to
\* two decimals, ties to even
Round2Cents(x) ==
    LET y == MulSmall(x.m, 100)
    IN  IF x.e >= 0 THEN ToInt(ShlBits(y, x.e)) ELSE ToInt(RoundShift(y, 0 - x.e))

\* round(x, 2): the float nearest to that two-decimal value
Round2(x) == ParseDecimal(Round2Cents(x), 100)

(***************************************************************************)
(* Values of the data model (app/models/models.py) and of the pricing      *)
(* tables (app/services/pricing.py).                                       *)
(***************************************************************************)
None == "None"

ServiceTypes   == {"assignment", "project", "presentation", "redesign", "summary", "express"}
AcademicLevels == {"high_school", "bachelor", "masters", "phd"}
Currencies     == {"USD", "JOD", "AED", "SAR"}
OrderStatuses  == {"pending", "confirmed", "in_progress", "delivered", "completed", "cancelled"}
PaymentStatuses == {"pending", "paid", "failed", "refunded"}

\* float literals of pricing.py and config.py
F1_0 == ParseDecimal(10, 10)
F1_1 == ParseDecimal(11, 10)
F1_2 == ParseDecimal(12, 10)
F1_3 == ParseDecimal(13, 10)
F1_5 == ParseDecimal(15, 10)
F2_0 == ParseDecimal(20, 10)

\* Settings (config/config.py): the base prices, the 24h multiplier and the
\* exchange rates, with the defaults of the Settings class
DefaultSettings ==
    [base_price_assignment   |-> ParseDecimal(200, 10),
     base_price_project      |-> ParseDecimal(500, 10),
     base_price_presentation |-> ParseDecimal(300, 10),
     base_price_redesign     |-> ParseDecimal(250, 10),
     base_price_summary      |-> ParseDecimal(150, 10),
     base_price_express      |-> ParseDecimal(500, 10),
     urgency_multiplier_24h  |-> F2_0,
     rate_usd_to_jod         |-> ParseDecimal(71, 100),
     rate_usd_to_aed         |-> ParseDecimal(367, 100),
     rate_usd_to_sar         |-> ParseDecimal(375, 100)]

\* the same fields as another environment (.env) sets them
OtherSettings ==
    [base_price_assignment   |-> ParseDecimal(225, 10),
     base_price_project      |-> ParseDecimal(450, 10),
     base_price_presentation |-> ParseDecimal(300, 10),
     base_price_redesign     |-> ParseDecimal(275, 10),
     base_price_summary      |-> ParseDecimal(150, 10),
     base_price_express      |-> ParseDecimal(550, 10),
     urgency_multiplier_24h  |-> ParseDecimal(25, 10),
     rate_usd_to_jod         |-> ParseDecimal(71, 100),
     rate_usd_to_aed         |-> ParseDecimal(370, 100),
     rate_usd_to_sar         |-> ParseDecimal(375, 100)]

SettingsChoices == {DefaultSettings, OtherSettings}

\* PricingService.__init__: self.base_prices
base_prices(cfg) ==
    [assignment   |-> cfg.base_price_assignment,
     project      |-> cfg.base_price_project,
     presentation |-> cfg.base_price_presentation,
     redesign     |-> FromInt(25),
     summary      |-> FromInt(15),
     express      |-> FromInt(50)]

\* PricingService.__init__: self.academic_multipliers
academic_multipliers ==
    [high_school |-> F1_0, bachelor |-> F1_2, masters |-> F1_5, phd |-> F2_0]

\* self.currency_rates with the rates of AED and SAR exchanged
CurrencyRatesExchanged ==
    [USD |-> F1_0, JOD |-> ParseDecimal(71, 100),
     AED |-> ParseDecimal(375, 100), SAR |-> ParseDecimal(367, 100)]

\* PricingService.__init__: self.currency_rates
currency_rates ==
    [USD |-> F1_0, JOD |-> ParseDecimal(71, 100),
     AED |-> ParseDecimal(367, 100), SAR |-> ParseDecimal(375, 100)]

\* dict.get(key, default)
DictGet(d, key, default) == IF key \in DOMAIN d THEN d[key] ELSE default

\* calculate_price, lines 42-52, with < for <= (a boundary slip)
UrgencyStrictBoundaries(cfg, days) ==
    IF days < 1 THEN cfg.urgency_multiplier_24h
    ELSE IF days < 2 THEN F1_5
    ELSE IF days < 3 THEN F1_3
    ELSE IF days < 5 THEN F1_1
    ELSE F1_0

\* calculate_price, lines 42-52: the urgency multiplier
urgency_multiplier_of(cfg, days) ==
    IF days <= 1 THEN cfg.urgency_multiplier_24h
    ELSE IF days <= 2 THEN F1_5
    ELSE IF days <= 3 THEN F1_3
    ELSE IF days <= 5 THEN F1_1
    ELSE F1_0

\* PricingService.calculate_price
calculate_price(cfg, service_type, academic_level, days_until_deadline, currency) ==
    LET base_price          == DictGet(base_prices(cfg), service_type, FromInt(30))
        urgency_multiplier  == urgency_multiplier_of(cfg, days_until_deadline)
        academic_multiplier == DictGet(academic_multipliers, academic_level, F1_0)
        total_price_usd     == FMul(FMul(base_price, urgency_multiplier), academic_multiplier)
        total_price         == IF currency # "USD"
                               THEN FMul(total_price_usd, DictGet(currency_rates, currency, F1_0))
                               ELSE total_price_usd
    IN  [base_price          |-> Round2(base_price),
         urgency_multiplier  |-> urgency_multiplier,
         academic_multiplier |-> academic_multiplier,
         total_price         |-> Round2(total_price),
         total_price_usd     |-> Round2(total_price_usd),
         currency            |-> currency]

(***************************************************************************)
(* State.                                                                  *)
(***************************************************************************)
VARIABLES
    settings,   \* the loaded Settings (pricing fields)
    now,        \* the clock, in ticks
    conv,       \* per customer: FSM state and data of the bot conversation
    orders,     \* the orders table, in insertion order
    payments,   \* the payments table
    quote,      \* the pricing call under way: its arguments and its result
    response,   \* the outcome of the last operation
    users,      \* the users table, in insertion order
    contacts,   \* the _get_or_create_user calls under way
    auth,       \* AuthService: its sessions, the tokens issued, last_cleanup
    limiter,    \* RateLimiter.requests: per user the times of admitted calls
    open_db     \* database sessions opened by an operation and not closed

vars == <<settings, now, conv, orders, payments, quote, response,
          users, contacts, auth, limiter, open_db>>

\* the state of the user directory, the admin sessions and the rate limiter
accounts == <<users, contacts, auth, limiter>>

(***************************************************************************)
(* The pricing service on its own: a call with arguments drawn from the    *)
(* tables plus one value outside each table.                               *)
(***************************************************************************)
MaxDays == 7
MinDays == 0 - 1

ServiceInputs  == ServiceTypes \cup {"thesis"}
LevelInputs    == AcademicLevels \cup {"diploma"}
CurrencyInputs == Currencies \cup {"EUR"}

NoCustomers == << >>

\* what an operation answered: the operation, the order or customer it was
\* about, its input and its answer
Response(op, target, arg, answer) ==
    [op |-> op, target |-> target, arg |-> arg, answer |-> answer]

NoResponse == Response(None, 0, None, None)

\* nobody has contacted the bot, no admin is logged in, no call was counted
\* and no database session is open
NoAccounts ==
    /\ users = << >>
    /\ contacts = << >>
    /\ auth = [sessions |-> {}, issued |-> 0, last_cleanup |-> 0]
    /\ limiter = << >>
    /\ open_db = 0

InitPricing ==
    /\ NoAccounts
    /\ settings \in SettingsChoices
    /\ quote \in [service_type : ServiceInputs, academic_level : LevelInputs,
                  days_until_deadline : MinDays..MaxDays, currency : CurrencyInputs,
                  called : {FALSE}, result : {None}]
    /\ now = 0
    /\ conv = NoCustomers
    /\ orders = << >>
    /\ payments = {}
    /\ response = NoResponse

\* a call of calculate_price that kept state: it lowers the configured 24h
\* multiplier once it has quoted
PricingCallAdjustingSettings ==
    /\ ~quote.called
    /\ quote' = [quote EXCEPT !.called = TRUE, !.result =
                    calculate_price(settings, quote.service_type, quote.academic_level,
                                    quote.days_until_deadline, quote.currency)]
    /\ settings' = [settings EXCEPT !.urgency_multiplier_24h = F1_5]
    /\ UNCHANGED <<accounts, open_db, now, conv, orders, payments, response>>

\* one call of PricingService.calculate_price
PricingCall ==
    /\ ~quote.called
    /\ quote' = [quote EXCEPT !.called = TRUE, !.result =
                    calculate_price(settings, quote.service_type, quote.academic_level,
                                    quote.days_until_deadline, quote.currency)]
    /\ UNCHANGED <<accounts, open_db, settings, now, conv, orders, payments, response>>

NextPricing == PricingCall

SpecPricing == InitPricing /\ [][NextPricing]_vars

(***************************************************************************)
(* The platform: the bot's order conversation, the orders table, the       *)
(* admin endpoint and the payment service.                                 *)
(***************************************************************************)
TicksPerDay == 2         \* clock ticks in a day of the model's clock
MaxNow      == 2         \* the clock stops here
OrdersPerCustomer == 1   \* orders a customer places before falling silent
MaxDeadlineDays == 1     \* largest N of a deadline entered as "N days"

\* an optional value: unset, or set to v
Unset   == << >>
Some(v) == <<v>>
IsSet(o) == Len(o) = 1
Get(o)  == o[1]

\* the buttons and texts the modelled customers send
FlowServices   == {"assignment"}
FlowLevels     == {"high_school", "bachelor"}
FlowCurrencies == {"USD", "AED"}
DeadlineTexts  ==
    {[form |-> "days", n |-> n] : n \in 0..MaxDeadlineDays}
    \cup {[form |-> "hours", n |-> 12]}
    \cup {[form |-> "date", n |-> t] : t \in 1..MaxNow}
    \cup {[form |-> "other", n |-> 0]}

\* statuses the admin form may carry: the six order statuses and a string
\* that is none of them
StatusInputs == OrderStatuses \cup {"paid"}
SessionIds   == {"cs_1", "cs_2"}
GatewayStatuses == {"paid", "unpaid", "expired", "raise"}

\* what becomes of the notification of a new order: the email and the admin
\* message are sent, or one of them raises
NotificationOutcomes == {"sent", "raise"}

\* what becomes of the message that shows the payment options of a new
\* order: Telegram delivers it, or message.answer raises
AnswerOutcomes == {"delivered", "raise"}

\* what becomes of the queries and the commit an operation runs on the
\* database session it opened: they succeed, or one of them raises
DbOutcomes == {"ok", "raise"}

\* the database sessions left open that are counted
MaxOpenDb == 2

\* a conversation after state.clear(), or before its first message
EmptyConversation ==
    [state |-> None, service_type |-> None, subject |-> FALSE, requirements |-> FALSE,
     academic_level |-> None, deadline |-> Unset, currency |-> None, pricing |-> Unset,
     pc |-> "idle", order_number |-> Unset]

Customers == DOMAIN conv
OrderIds  == 1..Len(orders)

\* the customer still places orders
Active(u) ==
    Cardinality({i \in OrderIds : orders[i].user_id = u}) < OrdersPerCustomer

Init ==
    /\ NoAccounts
    /\ settings = DefaultSettings
    /\ now = 0
    /\ conv = [u \in {1} |-> EmptyConversation]
    /\ orders = << >>
    /\ payments = {}
    /\ quote = None
    /\ response = NoResponse

\* the calendar date of a time
DateOf(t) == t \div TicksPerDay

\* calculate_order_urgency_days without the max(1, ...) of line 107
UrgencyDaysUnclamped(deadline, t) == (deadline - t) \div TicksPerDay

\* OrderUtils.calculate_order_urgency_days: timedelta.days is the floor
calculate_order_urgency_days(deadline, t) ==
    LET days == (deadline - t) \div TicksPerDay
    IN  IF days > 1 THEN days ELSE 1

\* time passes
Tick ==
    /\ now < MaxNow
    /\ now' = now + 1
    /\ UNCHANGED <<accounts, open_db, settings, conv, orders, payments, quote, response>>

\* the process is restarted with another environment: Settings() is built
\* again and PricingService.__init__ copies its prices
Reconfigure(cfg) ==
    /\ cfg # settings
    /\ settings' = cfg
    /\ UNCHANGED <<accounts, open_db, now, conv, orders, payments, quote, response>>

\* StudentServicesBot.cmd_cancel
cmd_cancel(u) ==
    /\ Active(u)
    /\ conv[u].pc = "idle"
    /\ conv[u] # EmptyConversation
    /\ conv' = [conv EXCEPT ![u] = EmptyConversation]
    /\ UNCHANGED <<accounts, open_db, settings, now, orders, payments, quote, response>>

\* StudentServicesBot.handle_service_selection
handle_service_selection(u, service_type) ==
    /\ Active(u)
    /\ conv[u].pc = "idle"
    /\ conv' = [conv EXCEPT ![u].service_type = service_type,
                            ![u].state = "waiting_for_subject"]
    /\ UNCHANGED <<accounts, open_db, settings, now, orders, payments, quote, response>>

\* StudentServicesBot.handle_subject_input; long_enough: len(subject) >= 5
handle_subject_input(u, long_enough) ==
    /\ Active(u)
    /\ conv[u].pc = "idle"
    /\ conv[u].state = "waiting_for_subject"
    /\ conv' = IF long_enough
               THEN [conv EXCEPT ![u].subject = TRUE,
                                 ![u].state = "waiting_for_requirements"]
               ELSE conv
    /\ response' = Response("handle_subject_input", u, None,
                             IF long_enough THEN "requirements_prompt" ELSE "subject_too_short")
    /\ UNCHANGED <<accounts, open_db, settings, now, orders, payments, quote>>

\* StudentServicesBot.handle_requirements_input; long_enough: len >= 20
handle_requirements_input(u, long_enough) ==
    /\ Active(u)
    /\ conv[u].pc = "idle"
    /\ conv[u].state = "waiting_for_requirements"
    /\ conv' = IF long_enough THEN [conv EXCEPT ![u].requirements = TRUE] ELSE conv
    /\ response' = Response("handle_requirements_input", u, None,
                             IF long_enough THEN "level_menu" ELSE "requirements_too_brief")
    /\ UNCHANGED <<accounts, open_db, settings, now, orders, payments, quote>>

\* StudentServicesBot.handle_academic_level
handle_academic_level(u, academic_level) ==
    /\ Active(u)
    /\ conv[u].pc = "idle"
    /\ conv' = [conv EXCEPT ![u].academic_level = academic_level,
                            ![u].state = "waiting_for_deadline"]
    /\ UNCHANGED <<accounts, open_db, settings, now, orders, payments, quote, response>>

\* handle_deadline_input, lines 609-621: the deadline a text denotes at time
\* t, Unset when the text does not parse
ParseDeadline(text, t) ==
    CASE text.form = "hours" -> Some(t + (text.n * TicksPerDay) \div 24)
      [] text.form = "days"  -> Some(t + text.n * TicksPerDay)
      [] text.form = "date"  -> Some(text.n)
      [] OTHER               -> Unset

\* StudentServicesBot.handle_deadline_input
handle_deadline_input(u, text) ==
    LET deadline == ParseDeadline(text, now)
    IN  /\ Active(u)
        /\ conv[u].pc = "idle"
        /\ conv[u].state = "waiting_for_deadline"
        /\ IF ~IsSet(deadline)
           THEN /\ response' = Response("handle_deadline_input", u, text.form, "invalid_deadline_format")
                /\ UNCHANGED conv
           ELSE IF Get(deadline) <= now
           THEN /\ response' = Response("handle_deadline_input", u, text.form, "deadline_must_be_in_future")
                /\ UNCHANGED conv
           ELSE /\ response' = Response("handle_deadline_input", u, text.form, "currency_menu")
                /\ conv' = [conv EXCEPT ![u].deadline = deadline]
        /\ UNCHANGED <<accounts, open_db, settings, now, orders, payments, quote>>

\* StudentServicesBot.handle_currency_selection.  The handler hands the
\* deadline to the pricing service; the days come from
\* calculate_order_urgency_days.
handle_currency_selection(u, currency) ==
    LET c == conv[u]
        priced == c.service_type # None /\ c.academic_level # None /\ IsSet(c.deadline)
        pricing == calculate_price(settings, c.service_type, c.academic_level,
                                   calculate_order_urgency_days(Get(c.deadline), now),
                                   currency)
    IN  /\ Active(u)
        /\ c.pc = "idle"
        /\ IF ~priced
           THEN /\ conv' = [conv EXCEPT ![u].currency = currency]
                /\ response' = Response("handle_currency_selection", u, currency, "error_calculating_price")
           ELSE IF ~(c.subject /\ c.requirements)
           THEN /\ conv' = [conv EXCEPT ![u].currency = currency,
                                        ![u].pricing = Some(pricing)]
                /\ response' = Response("handle_currency_selection", u, currency, "error_calculating_price")
           ELSE /\ conv' = [conv EXCEPT ![u].currency = currency,
                                        ![u].pricing = Some(pricing),
                                        ![u].state = "waiting_for_notes"]
                /\ response' = Response("handle_currency_selection", u, currency, "order_summary")
        /\ UNCHANGED <<accounts, open_db, settings, now, orders, payments, quote>>

\* handle_special_notes, lines 738-739: the order number derived from the
\* number of rows of the orders table, at time t
order_number_of(order_count, t) == [date |-> DateOf(t), seq |-> order_count + 1]

\* the decimal digits of a natural number, most significant first
RECURSIVE Digits(_)
Digits(n) == IF n < 10 THEN <<n>> ELSE Append(Digits(n \div 10), n % 10)

\* handle_special_notes, line 739: the format {order_count + 1:04d}, zero
\* padded to at least four digits
Format04d(n) ==
    LET d == Digits(n)
    IN  IF Len(d) >= 4 THEN d ELSE [i \in 1..(4 - Len(d)) |-> 0] \o d

\* handle_special_notes, lines 728-739: the handler counts the orders and
\* derives the order number
handle_special_notes_count(u) ==
    /\ conv[u].pc = "idle"
    /\ conv[u].state = "waiting_for_notes"
    /\ Active(u)
    /\ conv' = [conv EXCEPT ![u].pc = "counted",
                            ![u].order_number = Some(order_number_of(Len(orders), now))]
    /\ UNCHANGED <<accounts, open_db, settings, now, orders, payments, quote, response>>

\* Order(...) of handle_special_notes, with the column defaults
NewOrder(u, c, t) ==
    [order_number        |-> Get(c.order_number),
     user_id             |-> u,
     service_type        |-> c.service_type,
     academic_level      |-> c.academic_level,
     deadline            |-> Get(c.deadline),
     base_price          |-> Get(c.pricing).base_price,
     urgency_multiplier  |-> Get(c.pricing).urgency_multiplier,
     academic_multiplier |-> F1_0,
     total_amount        |-> Get(c.pricing).total_price,
     currency            |-> c.currency,
     status              |-> "pending",
     payment_status      |-> "pending",
     payment_method      |-> None,
     stripe_session_id   |-> None,
     delivered_files     |-> None,
     work_file_path      |-> None,
     created_at          |-> t]

\* the validators of Order, were order_number a column without unique index
InsertableUnindexed(row) ==
    /\ row.service_type \in ServiceTypes
    /\ row.academic_level \in AcademicLevels
    /\ row.status \in OrderStatuses
    /\ row.payment_status \in PaymentStatuses

\* the validators of Order and the unique index on order_number
Insertable(row) ==
    /\ row.service_type \in ServiceTypes
    /\ row.academic_level \in AcademicLevels
    /\ row.status \in OrderStatuses
    /\ row.payment_status \in PaymentStatuses
    /\ \A i \in OrderIds : orders[i].order_number # row.order_number

\* handle_special_notes, lines 759-786, were the notification sent inside the
\* transaction of the insert: its failure undoes the insert
NotificationInTransaction(table, row, notification) ==
    IF notification = "raise" THEN table ELSE Append(table, row)

\* handle_special_notes, lines 759-786: the orders table after the insert was
\* committed (760) and the notification was attempted (782); _send_notification
\* catches what the email or the admin message raises and logs it
CommittedOrders(table, row, notification) == Append(table, row)

\* handle_special_notes, lines 741-792: the order is built and committed in
\* one attempt (760), the payment options are shown (773), the conversation
\* is cleared (779) and the notification is sent (782).  Whatever raises
\* between lines 738 and 788, the failed commit or the message of line 773,
\* is caught at line 790, answered with an error message and leaves the
\* conversation at the notes step.
handle_special_notes_commit(u, answer, notification) ==
    LET row == NewOrder(u, conv[u], now)
    IN  /\ conv[u].pc = "counted"
        /\ IF Insertable(row) /\ answer = "raise"
           THEN /\ orders' = Append(orders, row)
                /\ conv' = [conv EXCEPT ![u].pc = "idle", ![u].order_number = Unset]
                /\ response' = Response("handle_special_notes", u,
                                        [attempts |-> 1, notification |-> None],
                                        "error_creating_order")
           ELSE IF Insertable(row)
           THEN /\ orders' = CommittedOrders(orders, row, notification)
                /\ conv' = [conv EXCEPT ![u] = EmptyConversation]
                /\ response' = Response("handle_special_notes", u,
                                        [attempts |-> 1, notification |-> notification],
                                        "order_created")
           ELSE /\ conv' = [conv EXCEPT ![u].pc = "idle", ![u].order_number = Unset]
                /\ response' = Response("handle_special_notes", u,
                                        [attempts |-> 1, notification |-> None],
                                        "error_creating_order")
                /\ UNCHANGED orders
        /\ UNCHANGED <<accounts, open_db, settings, now, payments, quote>>

\* update_order_status, lines 406-407, with a recomputation of the total
\* (a retroactive repricing slip)
StatusUpdateRepricing(order, status) ==
    [order EXCEPT !.status = status,
                  !.total_amount = Round2(FMul(order.base_price, order.urgency_multiplier))]

\* update_order_status, lines 406-407: the assignment to the loaded row
StatusUpdate(order, status) == [order EXCEPT !.status = status]

\* update_order_status, were Order.status a column without validate_status:
\* whatever the form carries is stored
update_order_status_unvalidated(order_id, status) ==
    /\ IF order_id \notin OrderIds
       THEN /\ response' = Response("update_order_status", order_id, status, "500 Error updating order status")
            /\ UNCHANGED orders
       ELSE /\ orders' = [orders EXCEPT ![order_id] = StatusUpdate(orders[order_id], status)]
            /\ response' = Response("update_order_status", order_id, status, "200 Order status updated successfully")
    /\ UNCHANGED <<accounts, open_db, settings, now, conv, payments, quote>>

\* update_order_status (PUT /api/orders/{order_id}/status).  The 404 raised
\* for a missing order and the ValueError of validate_status are both caught
\* by the handler's except clause, which rolls back and answers 500.
update_order_status(order_id, status) ==
    /\ IF order_id \notin OrderIds \/ status \notin OrderStatuses
       THEN /\ response' = Response("update_order_status", order_id, status, "500 Error updating order status")
            /\ UNCHANGED orders
       ELSE /\ orders' = [orders EXCEPT ![order_id] = StatusUpdate(orders[order_id], status)]
            /\ response' = Response("update_order_status", order_id, status, "200 Order status updated successfully")
    /\ UNCHANGED <<accounts, open_db, settings, now, conv, payments, quote>>

\* PaymentService.create_payment_link; gateway: "created" when Stripe returns
\* a checkout session (with this id), "raise" when the call raises.  The
\* database session is opened at line 60 and closed at line 65; when the
\* query or the commit between them raises, line 65 is skipped and the
\* except clause of line 69 returns None.
create_payment_link(order_id, gateway, session_id, db) ==
    /\ IF gateway # "created"
       THEN /\ response' = Response("create_payment_link", order_id, gateway, None)
            /\ UNCHANGED <<orders, open_db>>
       ELSE IF db = "raise"
       THEN /\ open_db < MaxOpenDb
            /\ open_db' = open_db + 1
            /\ response' = Response("create_payment_link", order_id, gateway, None)
            /\ UNCHANGED orders
       ELSE /\ response' = Response("create_payment_link", order_id, gateway, session_id)
            /\ orders' = IF order_id \in OrderIds
                         THEN [orders EXCEPT ![order_id].stripe_session_id = session_id]
                         ELSE orders
            /\ UNCHANGED open_db
    /\ UNCHANGED <<accounts, settings, now, conv, payments, quote>>

\* check_payment_status_by_order, lines 146-151, were the two columns plain
\* columns without validators: both assignments are stored
MarkPaidUnchecked(order) ==
    << TRUE, [order EXCEPT !.payment_status = "confirmed", !.status = "paid"] >>

\* check_payment_status_by_order, lines 146-151: the branch of a paid
\* session, <<committed, row>>.  payment_status = "confirmed" is assigned
\* first; validate_payment_status raises ValueError for it, so nothing is
\* committed.
MarkPaid(order) ==
    IF "confirmed" \notin PaymentStatuses THEN << FALSE, order >>
    ELSE IF "paid" \notin OrderStatuses THEN << FALSE, order >>
    ELSE << TRUE, [order EXCEPT !.payment_status = "confirmed", !.status = "paid"] >>

\* PaymentService.check_payment_status_by_order; gateway: the payment_status
\* of the retrieved checkout session, or "raise" when the retrieval raises
\* (caught at line 157, as is what the query or the commit raises); the
\* database session opened at line 132 is closed by the finally of line 159
check_payment_status_by_order(order_id, gateway, db) ==
    LET answered(a) ==
            response' = Response("check_payment_status_by_order", order_id, gateway, a)
    IN  /\ IF db = "raise"
           THEN answered("error") /\ UNCHANGED orders
           ELSE IF order_id \notin OrderIds
           THEN answered("Order not found") /\ UNCHANGED orders
           ELSE IF orders[order_id].payment_method # "stripe"
           THEN answered("Not a Stripe order") /\ UNCHANGED orders
           ELSE IF orders[order_id].stripe_session_id = None
           THEN answered("No session ID found") /\ UNCHANGED orders
           ELSE IF gateway = "raise"
           THEN answered("error") /\ UNCHANGED orders
           ELSE IF gateway = "paid"
           THEN LET marked == MarkPaid(orders[order_id])
                IN  IF marked[1]
                    THEN /\ answered("succeeded")
                         /\ orders' = [orders EXCEPT ![order_id] = marked[2]]
                    ELSE answered("error") /\ UNCHANGED orders
           ELSE IF gateway = "unpaid"
           THEN answered("pending") /\ UNCHANGED orders
           ELSE answered("failed") /\ UNCHANGED orders
        /\ UNCHANGED <<accounts, open_db, settings, now, conv, payments, quote>>

\* the order conversation of one customer, from the first button to the
\* committed order, while time passes
Next ==
    \/ Tick
    \/ \E u \in Customers : cmd_cancel(u)
    \/ \E u \in Customers, s \in FlowServices : handle_service_selection(u, s)
    \/ \E u \in Customers, b \in BOOLEAN : handle_subject_input(u, b)
    \/ \E u \in Customers, b \in BOOLEAN : handle_requirements_input(u, b)
    \/ \E u \in Customers, l \in FlowLevels : handle_academic_level(u, l)
    \/ \E u \in Customers, t \in DeadlineTexts : handle_deadline_input(u, t)
    \/ \E u \in Customers, c \in FlowCurrencies : handle_currency_selection(u, c)
    \/ \E u \in Customers : handle_special_notes_count(u)
    \/ \E u \in Customers, n \in NotificationOutcomes :
          handle_special_notes_commit(u, "delivered", n)

Spec == Init /\ [][Next]_vars

(***************************************************************************)
(* Stored orders under the admin endpoint and the payment service.         *)
(* payment_method and payment_status are columns that                      *)
(* PaymentService.create_stripe_session and process_bank_transfer write    *)
(* (bot.py calls them at lines 833 and 1013; their code is not in the      *)
(* sources), so the stored rows range over the values the columns admit.   *)
(***************************************************************************)
StoredOrders == 1    \* rows in the orders table

\* the conversation a stored order came from
StoredConversation(k) ==
    [EmptyConversation EXCEPT
        !.state = "waiting_for_notes", !.service_type = "assignment",
        !.subject = TRUE, !.requirements = TRUE, !.academic_level = "bachelor",
        !.deadline = Some(TicksPerDay), !.currency = "USD",
        !.pricing = Some(calculate_price(DefaultSettings, "assignment", "bachelor", 1, "USD")),
        !.pc = "counted", !.order_number = Some([date |-> 0, seq |-> k])]

\* payment_method and payment_status of a stored order
StoredPaymentStates ==
    {<<None, "pending">>,        \* as handle_special_notes stores it
     <<"stripe", "pending">>,    \* after the customer chose to pay by card
     <<"stripe", "paid">>}       \* after the payment was recorded

StoredOrder(k, ps) ==
    [NewOrder(k, StoredConversation(k), 0) EXCEPT
        !.payment_method = ps[1], !.payment_status = ps[2]]

\* the Payment rows of a stored order: none while the payment is pending,
\* else the one whose outcome the order's payment_status records
StoredPayments(k, ps) ==
    IF ps[2] = "pending" THEN {}
    ELSE {[order_id |-> k, payment_id |-> k, method |-> ps[1],
           status |-> IF ps[2] = "paid" THEN "succeeded" ELSE ps[2]]}

InitLifecycle ==
    /\ NoAccounts
    /\ settings = DefaultSettings
    /\ now = 0
    /\ conv = NoCustomers
    /\ \E f \in [1..StoredOrders -> StoredPaymentStates] :
          /\ orders = [k \in 1..StoredOrders |-> StoredOrder(k, f[k])]
          /\ payments = UNION {StoredPayments(k, f[k]) : k \in 1..StoredOrders}
    /\ quote = None
    /\ response = NoResponse

NextLifecycle ==
    \/ \E cfg \in SettingsChoices : Reconfigure(cfg)
    \/ \E i \in 1..StoredOrders + 1, st \in StatusInputs : update_order_status(i, st)
    \/ \E i \in 1..StoredOrders + 1, g \in {"created", "raise"}, sid \in SessionIds :
          create_payment_link(i, g, sid, "ok")
    \/ \E i \in 1..StoredOrders + 1, g \in GatewayStatuses : check_payment_status_by_order(i, g, "ok")

SpecLifecycle == InitLifecycle /\ [][NextLifecycle]_vars

\* the same stored orders in one running process: the settings stay as loaded
NextPayments ==
    \/ \E i \in 1..StoredOrders + 1, st \in StatusInputs : update_order_status(i, st)
    \/ \E i \in 1..StoredOrders + 1, g \in {"created", "raise"}, sid \in SessionIds :
          create_payment_link(i, g, sid, "ok")
    \/ \E i \in 1..StoredOrders + 1, g \in GatewayStatuses : check_payment_status_by_order(i, g, "ok")

SpecPayments == InitLifecycle /\ [][NextPayments]_vars

(***************************************************************************)
(* The order numbers of two creations of one day: the earlier one finds    *)
(* first_count rows in the orders table, the later one second_count rows.  *)
(* Nothing in the code deletes an order, so the later one finds more.      *)
(***************************************************************************)
MaxCount == 3    \* the row counts tried are up to MaxCount above 0 and above 9998

CountInputs == (0..MaxCount) \cup ((10^4 - 2)..(10^4 - 2 + MaxCount))

InitNumbering ==
    /\ NoAccounts
    /\ settings = DefaultSettings
    /\ now \in 0..MaxNow
    /\ conv = NoCustomers
    /\ orders = << >>
    /\ payments = {}
    /\ quote \in {q \in [first_count : CountInputs, second_count : CountInputs,
                          called : {FALSE}, result : {None}] :
                      q.first_count < q.second_count}
    /\ response = NoResponse

\* lines 738-739 of handle_special_notes in the two creations
OrderNumberCalls ==
    /\ ~quote.called
    /\ quote' = [quote EXCEPT !.called = TRUE, !.result =
                    << order_number_of(quote.first_count, now),
                       order_number_of(quote.second_count, now) >>]
    /\ UNCHANGED <<accounts, open_db, settings, now, conv, orders, payments, response>>

NextNumbering == OrderNumberCalls

SpecNumbering == InitNumbering /\ [][NextNumbering]_vars

(***************************************************************************)
(* OrderUtils.calculate_order_urgency_days on its own, for deadlines before *)
(* and after the time of the call.                                         *)
(***************************************************************************)
MaxSpan == 12    \* deadlines lie within MaxSpan ticks of time 0

InitUrgency ==
    /\ NoAccounts
    /\ settings = DefaultSettings
    /\ now \in 0..MaxNow
    /\ conv = NoCustomers
    /\ orders = << >>
    /\ payments = {}
    /\ quote \in [deadline : (0 - MaxSpan)..MaxSpan, called : {FALSE}, result : {None}]
    /\ response = NoResponse

\* one call of OrderUtils.calculate_order_urgency_days
UrgencyDaysCall ==
    /\ ~quote.called
    /\ quote' = [quote EXCEPT !.called = TRUE,
                              !.result = calculate_order_urgency_days(quote.deadline, now)]
    /\ UNCHANGED <<accounts, open_db, settings, now, conv, orders, payments, response>>

NextUrgency == UrgencyDaysCall

SpecUrgency == InitUrgency /\ [][NextUrgency]_vars

(***************************************************************************)
(* The pricing service of a running process called again and again with    *)
(* the same arguments while the admin endpoint and the payment service     *)
(* work on a stored order and time passes.                                 *)
(***************************************************************************)
MaxRecalls == 1    \* calls after the first one

RepeatServices   == {"assignment", "thesis"}
RepeatCurrencies == {"USD", "AED"}

InitRepeat ==
    /\ NoAccounts
    /\ settings \in SettingsChoices
    /\ now = 0
    /\ conv = NoCustomers
    /\ orders = << StoredOrder(1, <<"stripe", "pending">>) >>
    /\ payments = {}
    /\ quote \in [service_type : RepeatServices, academic_level : {"bachelor"},
                  days_until_deadline : {1}, currency : RepeatCurrencies,
                  called : {FALSE}, result : {None}, recalls : {0}]
    /\ response = NoResponse

\* a further call of calculate_price with the arguments of the first
PricingRecall ==
    /\ quote.called
    /\ quote.recalls < MaxRecalls
    /\ quote' = [quote EXCEPT !.recalls = @ + 1, !.result =
                    calculate_price(settings, quote.service_type, quote.academic_level,
                                    quote.days_until_deadline, quote.currency)]
    /\ UNCHANGED <<accounts, open_db, settings, now, conv, orders, payments, response>>

NextRepeat ==
    \/ PricingCall
    \/ PricingRecall
    \/ Tick
    \/ \E i \in OrderIds, st \in StatusInputs : update_order_status(i, st)
    \/ \E i \in OrderIds, g \in {"created", "raise"}, sid \in SessionIds :
          create_payment_link(i, g, sid, "ok")
    \/ \E i \in OrderIds, g \in GatewayStatuses : check_payment_status_by_order(i, g, "ok")

SpecRepeat == InitRepeat /\ [][NextRepeat]_vars

(***************************************************************************)
(* One stored Stripe order and one customer at the notes step: the order   *)
(* creation, the admin endpoint and the payment service on the same table. *)
(***************************************************************************)
InitOperations ==
    /\ NoAccounts
    /\ settings = DefaultSettings
    /\ now = 0
    /\ conv = [u \in {2} |->
                 [StoredConversation(0) EXCEPT !.pc = "idle", !.order_number = Unset]]
    /\ orders = << StoredOrder(1, <<"stripe", "pending">>) >>
    /\ payments = {}
    /\ quote = None
    /\ response = NoResponse

NextOperations ==
    \/ \E u \in Customers : handle_special_notes_count(u)
    \/ \E u \in Customers, n \in NotificationOutcomes :
          handle_special_notes_commit(u, "delivered", n)
    \/ \E i \in 1..Len(orders) + 1, st \in StatusInputs : update_order_status(i, st)
    \/ \E i \in OrderIds, g \in {"created", "raise"}, sid \in SessionIds :
          create_payment_link(i, g, sid, "ok")
    \/ \E i \in 1..Len(orders) + 1, g \in GatewayStatuses : check_payment_status_by_order(i, g, "ok")

SpecOperations == InitOperations /\ [][NextOperations]_vars

(***************************************************************************)
(* Several bot workers serving customers that all send their notes: each   *)
(* conversation is at the last step of the order flow.                     *)
(***************************************************************************)
Workers == 2     \* customers whose order creations overlap

InitConcurrent ==
    /\ NoAccounts
    /\ settings = DefaultSettings
    /\ now = 0
    /\ conv = [u \in 1..Workers |->
                 [StoredConversation(0) EXCEPT !.pc = "idle", !.order_number = Unset]]
    /\ orders = << >>
    /\ payments = {}
    /\ quote = None
    /\ response = NoResponse

NextConcurrent ==
    \/ Tick
    \/ \E u \in Customers : handle_special_notes_count(u)
    \/ \E u \in Customers, n \in NotificationOutcomes :
          handle_special_notes_commit(u, "delivered", n)

SpecConcurrent == InitConcurrent /\ [][NextConcurrent]_vars

\* the decimal value of a float that denotes a two-decimal number, in hundredths
Hundredths(x) == Round2Cents(x)

\* n / 10^6 rounded to the nearest integer, ties to even (n a limb sequence)
RoundMillionth(n) ==
    LET d1  == DivSmall(n, 1000)
        d2  == DivSmall(d1[1], 1000)
        rem == d2[2] * 1000 + d1[2]
        q   == ToInt(d2[1])
    IN  IF rem > 500000 \/ (rem = 500000 /\ q % 2 = 1) THEN q + 1 ELSE q

\* round(base_price * academic_multiplier * urgency_multiplier * rate, 2) over
\* the decimal values, in cents
ProductCents(base_price, academic_multiplier, urgency_multiplier, rate) ==
    RoundMillionth(BigMul(BigMul(IntToBig(Hundredths(base_price)),
                                 IntToBig(Hundredths(academic_multiplier))),
                          BigMul(IntToBig(Hundredths(urgency_multiplier)),
                                 IntToBig(Hundredths(rate)))))

ValidQuoteInputs ==
    /\ quote.service_type \in ServiceTypes
    /\ quote.academic_level \in AcademicLevels
    /\ quote.days_until_deadline >= 1
    /\ quote.currency \in Currencies

\* C6: for every service type, academic level, days >= 1 and currency of the
\* tables, total_price is base_price * academic_multiplier *
\* urgency_multiplier * rate rounded once to two decimals (rate 1 for USD);
\* ('assignment', 'bachelor', 1, 'USD') with base price 20.0 yields 20.0,
\* 1.2, 2.0 and 48.0.
C6_TotalIsRoundedProduct ==
    (quote.called /\ ValidQuoteInputs) =>
        /\ Hundredths(quote.result.total_price) =
               ProductCents(quote.result.base_price, quote.result.academic_multiplier,
                            quote.result.urgency_multiplier, currency_rates[quote.currency])
        /\ ( /\ settings = DefaultSettings
             /\ quote.service_type = "assignment" /\ quote.academic_level = "bachelor"
             /\ quote.days_until_deadline = 1 /\ quote.currency = "USD" )
           => /\ quote.result.base_price = ParseDecimal(200, 10)
              /\ quote.result.academic_multiplier = F1_2
              /\ quote.result.urgency_multiplier = F2_0
              /\ quote.result.total_price = ParseDecimal(480, 10)

\* C7: the urgency multiplier is a step function of days_until_deadline whose
\* boundary days belong to the lower tier: days <= 1 gives the configured 24h
\* multiplier (2.0 by default), 2 gives 1.5, 3 gives 1.3, 4 and 5 give 1.1,
\* 6 and more give 1.0.
C7_UrgencyStepFunction ==
    quote.called =>
        LET days == quote.days_until_deadline
            mult == quote.result.urgency_multiplier
        IN  /\ days <= 1 => mult = settings.urgency_multiplier_24h
            /\ (days <= 1 /\ settings = DefaultSettings) => mult = ParseDecimal(20, 10)
            /\ days = 2 => mult = ParseDecimal(15, 10)
            /\ days = 3 => mult = ParseDecimal(13, 10)
            /\ days \in {4, 5} => mult = ParseDecimal(11, 10)
            /\ days >= 6 => mult = ParseDecimal(10, 10)

\* a quote for exactly two days carries the 1.5 tier
C7_Witness ==
    /\ quote.called
    /\ quote.days_until_deadline = 2
    /\ quote.result.urgency_multiplier = ParseDecimal(15, 10)

LegalStatusChanges ==
    {<<"pending", "confirmed">>, <<"confirmed", "in_progress">>,
     <<"in_progress", "delivered">>, <<"delivered", "completed">>,
     <<"pending", "cancelled">>, <<"confirmed", "cancelled">>,
     <<"in_progress", "cancelled">>}

\* C1: an order's status changes only along pending->confirmed,
\* confirmed->in_progress, in_progress->delivered, delivered->completed or
\* pending/confirmed/in_progress->cancelled; any other requested change
\* fails and leaves the stored status unchanged.
C1_OnlyLegalStatusChanges ==
    [][\A i \in OrderIds :
          orders'[i].status # orders[i].status
             => <<orders[i].status, orders'[i].status>> \in LegalStatusChanges]_vars

\* a refund has been recorded for order i
RefundRecorded(i) ==
    \E p \in payments : p.order_id = i /\ p.status = "refunded"

\* C2: no order is paid and cancelled unless a refund has been recorded: a
\* request to cancel a paid order without a refund record fails.
C2_NoPaidCancelledWithoutRefund ==
    \A i \in OrderIds :
        (orders[i].payment_status = "paid" /\ orders[i].status = "cancelled")
            => RefundRecorded(i)

\* C3: of the order creations that run concurrently, each reading the order
\* count, deriving count + 1 and then inserting, every one obtains an order
\* number and no two obtain the same number.
C3_ConcurrentNumbersDistinct ==
    /\ \A u \in Customers, v \in Customers :
          (u # v /\ conv[u].pc = "counted" /\ conv[v].pc = "counted")
             => conv[u].order_number # conv[v].order_number
    /\ \A u \in Customers, i \in OrderIds :
          conv[u].pc = "counted" => orders[i].order_number # Get(conv[u].order_number)
    /\ response.answer # "error_creating_order"

\* the Payment rows of order i that succeeded
Succeeded(i) == {p \in payments : p.order_id = i /\ p.status = "succeeded"}

\* C4: after any sequence of payment-success events an order has at most
\* one succeeded Payment, and a payment-success event (a status check while
\* the gateway session of the Stripe order is paid), applied once or twice,
\* leaves exactly one succeeded Payment and the order paid.
C4_PaymentSuccessRecordedOnce ==
    /\ \A i \in OrderIds : Cardinality(Succeeded(i)) <= 1
    /\ ( /\ response.op = "check_payment_status_by_order"
         /\ response.arg = "paid"
         /\ response.target \in OrderIds
         /\ orders[response.target].payment_method = "stripe"
         /\ orders[response.target].stripe_session_id # None )
       => /\ Cardinality(Succeeded(response.target)) = 1
          /\ orders[response.target].payment_status = "paid"

\* the pricing snapshot of an order
PricingSnapshot(o) ==
    <<o.base_price, o.academic_multiplier, o.urgency_multiplier, o.total_amount, o.currency>>

\* C9: no operation on an existing order (admin status update, payment-link
\* creation, payment status check, a change of the configured prices)
\* changes its base_price, academic_multiplier, urgency_multiplier,
\* total_amount or currency.
C9_PricingSnapshotFrozen ==
    [][\A i \in OrderIds : PricingSnapshot(orders'[i]) = PricingSnapshot(orders[i])]_vars

\* an order whose status was updated and whose payment link was created
\* keeps the price of the settings it was created under after the prices
\* were reconfigured and its payment status was checked
C9_Witness ==
    \E i \in OrderIds :
        /\ orders[i].status # "pending"
        /\ orders[i].stripe_session_id # None
        /\ settings # DefaultSettings
        /\ response.op = "check_payment_status_by_order"
        /\ orders[i].base_price = DefaultSettings.base_price_assignment
        /\ orders[i].total_amount = ParseDecimal(480, 10)

\* the arguments of the call are keys of the three tables
InTables ==
    /\ quote.service_type \in ServiceTypes
    /\ quote.academic_level \in AcademicLevels
    /\ quote.currency \in Currencies

\* C11: calculate_price called with a service type outside the price table,
\* an academic level outside the four tiers or a currency outside the rate
\* table fails with an error and returns no quote built from a default value:
\* a quote is returned only for arguments inside the tables.
C11_UnknownInputsRejected ==
    (quote.called /\ "total_price" \in DOMAIN quote.result) => InTables

\* the changes of payment_status the payment life cycle allows
LegalPaymentChanges ==
    {<<"pending", "paid">>, <<"pending", "failed">>,
     <<"failed", "pending">>, <<"paid", "refunded">>}

C13_NotificationFailureKeepsOrder ==
    [][\A u \in Customers :
          ( /\ conv[u].pc = "counted"
            /\ conv'[u].pc # "counted"
            /\ Insertable(NewOrder(u, conv[u], now))
            /\ response'.arg.notification = "raise" )
          => /\ orders' = Append(orders, NewOrder(u, conv[u], now))
             /\ response'.answer = "order_created"]_vars

\* an order was committed, its notification failed, and the order is stored
C13_Witness ==
    /\ response.op = "handle_special_notes"
    /\ response.arg.notification = "raise"
    /\ \E i \in OrderIds : orders[i].user_id = response.target

\* C14: in every reachable state no two persisted orders share an
\* order_number: the unique index rejects at commit a creation that computed
\* an already used number, whatever count()+1 gave at request time.
C14_OrderNumbersUnique ==
    \A i \in OrderIds, j \in OrderIds :
        i # j => orders[i].order_number # orders[j].order_number

\* a creation that computed a used number was refused and the table holds
\* the order that took the number
C14_Witness ==
    /\ response.op = "handle_special_notes"
    /\ response.answer = "error_creating_order"
    /\ Len(orders) >= 1

\* C15: when the commit of a new order conflicts on a duplicate order
\* number, the creation retries the allocation (a bounded number of times)
\* before it reports a failure: it never gives up on the first conflict.
C15_ConflictIsRetried ==
    [][\A u \in Customers :
          ( /\ conv[u].pc = "counted"
            /\ conv'[u].pc # "counted"
            /\ \E i \in OrderIds : orders[i].order_number = Get(conv[u].order_number)
            /\ response'.answer = "error_creating_order" )
          => response'.arg.attempts > 1]_vars

\* C16: order numbers issued on the same day have strictly increasing
\* sequence parts in creation order and a sequence of one fixed width after
\* the creation date.
C16_SequenceIncreasingFixedWidth ==
    quote.called =>
        LET earlier == quote.result[1]
            later   == quote.result[2]
        IN  /\ earlier.date = later.date
            /\ earlier.seq < later.seq
            /\ Len(Format04d(earlier.seq)) = Len(Format04d(later.seq))

\* C17: calculate_order_urgency_days returns max(1, the whole days from now
\* to the deadline, rounded down): an integer >= 1 for every deadline, also
\* one less than a day away or already past.
C17_UrgencyDaysAtLeastOne ==
    quote.called =>
        LET span == quote.deadline - now
            days == quote.result
        IN  /\ days \in Nat
            /\ days >= 1
            /\ span < 2 * TicksPerDay => days = 1
            /\ span >= 2 * TicksPerDay =>
                  (days * TicksPerDay <= span /\ span < (days + 1) * TicksPerDay)

\* the deadline had passed when the days were computed, and the result is 1
C17_Witness ==
    /\ quote.called
    /\ quote.deadline < now
    /\ quote.result = 1

\* the fixed USD-to-AED rate, in hundredths
AedRateHundredths == 367

\* C18: for every valid service type, academic level and days_until_deadline,
\* the AED quote's total_price divided by the fixed USD-to-AED rate (3.67)
\* differs from the USD quote's total price by at most 0.01.  In cents:
\* |aed * 100 / 367 - usd| <= 1.
C18_AedRoundTrip ==
    (quote.called /\ ValidQuoteInputs /\ quote.currency = "AED") =>
        LET usd_quote == calculate_price(settings, quote.service_type, quote.academic_level,
                                         quote.days_until_deadline, "USD")
            aed == Hundredths(quote.result.total_price)
            usd == Hundredths(usd_quote.total_price)
            gap == aed * 100 - usd * AedRateHundredths
        IN  /\ gap <= AedRateHundredths
            /\ 0 - gap <= AedRateHundredths

\* an AED quote whose total is not a whole multiple of the rate: the
\* conversion was rounded
C18_Witness ==
    /\ quote.called
    /\ ValidQuoteInputs
    /\ quote.currency = "AED"
    /\ Hundredths(quote.result.total_price) * 100
         # Hundredths(quote.result.total_price_usd) * AedRateHundredths

ArtifactPresent(o) == o.work_file_path # None \/ o.delivered_files # None

\* C20: an order has status 'delivered' only if a delivered artifact
\* reference (work_file_path or delivered_files) is present on it: a change
\* to 'delivered' on an order without one is rejected.
C20_DeliveredHasArtifact ==
    \A i \in OrderIds : orders[i].status = "delivered" => ArtifactPresent(orders[i])

\* the base price the configuration gives a service type
ConfiguredBasePrice(cfg, service_type) ==
    CASE service_type = "assignment"   -> cfg.base_price_assignment
      [] service_type = "project"      -> cfg.base_price_project
      [] service_type = "presentation" -> cfg.base_price_presentation
      [] service_type = "redesign"     -> cfg.base_price_redesign
      [] service_type = "summary"      -> cfg.base_price_summary
      [] service_type = "express"      -> cfg.base_price_express

\* the exchange rate the configuration gives a non-USD currency
ConfiguredRate(cfg, currency) ==
    CASE currency = "JOD" -> cfg.rate_usd_to_jod
      [] currency = "AED" -> cfg.rate_usd_to_aed
      [] currency = "SAR" -> cfg.rate_usd_to_sar

\* C21: the base price of every service type and every exchange rate that
\* calculate_price uses come from the configuration: under whatever
\* configuration is loaded, the quote's base_price is the configured base
\* price of the service type and a non-USD total is converted with the
\* configured rate of the currency.
C21_PricesFromConfiguration ==
    (quote.called /\ ValidQuoteInputs) =>
        LET base == ConfiguredBasePrice(settings, quote.service_type)
            usd  == FMul(FMul(base, quote.result.urgency_multiplier),
                         quote.result.academic_multiplier)
        IN  /\ quote.result.base_price = Round2(base)
            /\ quote.currency # "USD" =>
                  quote.result.total_price =
                      Round2(FMul(usd, ConfiguredRate(settings, quote.currency)))

\* the answers check_payment_status_by_order documents
DocumentedAnswers == {"pending", "succeeded", "failed", "error"}

\* C22: check_payment_status_by_order returns only one of 'pending',
\* 'succeeded', 'failed' or 'error' for every order id, and when the order is
\* a Stripe order whose gateway session is paid it records the payment on the
\* order, commits, and returns 'succeeded'.
C22_DocumentedAnswersOnly ==
    response.op = "check_payment_status_by_order" =>
        /\ response.answer \in DocumentedAnswers
        /\ ( /\ response.arg = "paid"
             /\ response.target \in OrderIds
             /\ orders[response.target].payment_method = "stripe"
             /\ orders[response.target].stripe_session_id # None )
           => /\ response.answer = "succeeded"
              /\ orders[response.target].payment_status = "paid"

\* the step is an admin update carrying a string that is no order status, or
\* a status check that finds the Stripe order's session paid and so assigns
\* payment_status 'confirmed'
WritesOtherValue ==
    \/ /\ response'.op = "update_order_status"
       /\ response'.target \in OrderIds
       /\ response'.arg \notin OrderStatuses
    \/ /\ response'.op = "check_payment_status_by_order"
       /\ response'.arg = "paid"
       /\ response'.target \in OrderIds
       /\ orders[response'.target].payment_method = "stripe"
       /\ orders[response'.target].stripe_session_id # None

C24_MissingOrderAnswers404 ==
    (response.op = "update_order_status" /\ response.target \notin OrderIds) =>
        response.answer = "404 Order not found"

(***************************************************************************)
(* The customers at the notes step: the order creation with every outcome  *)
(* of the messages it sends.                                               *)
(***************************************************************************)
NextNotes ==
    \/ Tick
    \/ \E u \in Customers : cmd_cancel(u)
    \/ \E u \in Customers : handle_special_notes_count(u)
    \/ \E u \in Customers, a \in AnswerOutcomes, n \in NotificationOutcomes :
          handle_special_notes_commit(u, a, n)

SpecNotes == InitConcurrent /\ [][NextNotes]_vars

\* C26: the order-creation step answers 'Error creating order. Please try
\* again.' only when it persisted no order, and a step that committed an
\* order leaves the customer's conversation cleared, no longer at the notes
\* step.
C26_ErrorMeansNoOrder ==
    [][response'.op = "handle_special_notes" =>
          /\ response'.answer = "error_creating_order" => orders' = orders
          /\ orders' # orders =>
                conv'[response'.target].state # "waiting_for_notes"]_vars

(***************************************************************************)
(* The user directory: _get_or_create_user run by several workers on one   *)
(* users table, each call a query followed by a commit.                    *)
(***************************************************************************)
Callers == 2

TelegramIds == {"tg_1", "tg_2"}

\* a worker between two calls, with what its last call gave
NoContact == [pc |-> "idle", telegram_id |-> None, found |-> 0, result |-> Unset]

\* db.query(User).filter(User.telegram_id == ...).first(), line 1284: the id
\* of the row, 0 when there is none
UserOf(table, telegram_id) ==
    IF \E i \in 1..Len(table) : table[i].telegram_id = telegram_id
    THEN CHOOSE i \in 1..Len(table) : table[i].telegram_id = telegram_id
    ELSE 0

\* what a call gives back: the row it returns and whether the instance's
\* attributes are loaded, or the exception it raises
Returned(user, loaded) == [user |-> user, loaded |-> loaded, raised |-> None]
Raised(exception) == [user |-> 0, loaded |-> FALSE, raised |-> exception]

InitUsers ==
    /\ settings = DefaultSettings
    /\ now = 0
    /\ conv = NoCustomers
    /\ orders = << >>
    /\ payments = {}
    /\ quote = None
    /\ response = NoResponse
    /\ users = << >>
    /\ contacts = [c \in 1..Callers |-> NoContact]
    /\ auth = [sessions |-> {}, issued |-> 0, last_cleanup |-> 0]
    /\ limiter = << >>
    /\ open_db = 0

\* _get_or_create_user, line 1284: the query
get_or_create_user_query(c, telegram_id) ==
    /\ contacts[c].pc = "idle"
    /\ contacts' = [contacts EXCEPT ![c] =
                       [pc |-> "queried", telegram_id |-> telegram_id,
                        found |-> UserOf(users, telegram_id), result |-> Unset]]
    /\ UNCHANGED <<settings, now, conv, orders, payments, quote, response,
                   users, auth, limiter, open_db>>

\* the users table accepts the row: telegram_id is unique (models.py 33)
UserInsertable(table, telegram_id) == UserOf(table, telegram_id) = 0

\* _get_or_create_user, lines 1286-1307.  No row was found: a User is added,
\* committed and refreshed; a commit that breaks the unique constraint raises
\* IntegrityError, which get_session rolls back and raises again.  A row was
\* found: last_activity is set and committed, and the instance is returned
\* as the commit left it, expired, from a session that is then closed.
get_or_create_user_commit(c) ==
    LET call == contacts[c]
        done(result) == contacts' = [contacts EXCEPT ![c].pc = "idle",
                                                     ![c].result = Some(result)]
    IN  /\ call.pc = "queried"
        /\ IF call.found = 0
           THEN IF UserInsertable(users, call.telegram_id)
                THEN /\ users' = Append(users, [telegram_id   |-> call.telegram_id,
                                                created_at    |-> now,
                                                last_activity |-> now])
                     /\ done(Returned(Len(users) + 1, TRUE))
                ELSE /\ done(Raised("IntegrityError"))
                     /\ UNCHANGED users
           ELSE /\ users' = [users EXCEPT ![call.found].last_activity = now]
                /\ done(Returned(call.found, FALSE))
        /\ UNCHANGED <<settings, now, conv, orders, payments, quote, response,
                       auth, limiter, open_db>>

NextUsers ==
    \/ Tick
    \/ \E c \in 1..Callers, t \in TelegramIds : get_or_create_user_query(c, t)
    \/ \E c \in 1..Callers : get_or_create_user_commit(c)

SpecUsers == InitUsers /\ [][NextUsers]_vars

\* C25: there is at most one User per telegram_id, and every finished
\* _get_or_create_user call returned the User of the Telegram id it was
\* called with, whatever the interleaving of the calls.
C25_OneUserEveryCallReturns ==
    /\ \A i, j \in 1..Len(users) :
           users[i].telegram_id = users[j].telegram_id => i = j
    /\ \A c \in DOMAIN contacts :
           IsSet(contacts[c].result) =>
               /\ Get(contacts[c].result).raised = None
               /\ Get(contacts[c].result).user = UserOf(users, contacts[c].telegram_id)

(***************************************************************************)
(* A customer at the deadline step who sends 'N days' and later chooses    *)
(* the currency, while time passes.                                        *)
(***************************************************************************)
TierDays == {2, 3, 5}

InitDeadline ==
    /\ NoAccounts
    /\ settings = DefaultSettings
    /\ now = 0
    /\ \E level \in FlowLevels :
          conv = [u \in {1} |->
                    [EmptyConversation EXCEPT !.state = "waiting_for_deadline",
                                              !.service_type = "assignment",
                                              !.subject = TRUE,
                                              !.requirements = TRUE,
                                              !.academic_level = level]]
    /\ orders = << >>
    /\ payments = {}
    /\ quote \in {[days |-> n] : n \in TierDays}
    /\ response = NoResponse

NextDeadline ==
    \/ Tick
    \/ \E u \in Customers : handle_deadline_input(u, [form |-> "days", n |-> quote.days])
    \/ \E u \in Customers, c \in FlowCurrencies : handle_currency_selection(u, c)

SpecDeadline == InitDeadline /\ [][NextDeadline]_vars

SessionHours == 8
CleanupIntervalHours == 1
HoursPerStep == 4
MaxHours == 12
MaxSessions == 2

InitAuth ==
    /\ settings = DefaultSettings
    /\ now = 0
    /\ conv = NoCustomers
    /\ orders = << >>
    /\ payments = {}
    /\ quote = None
    /\ response = NoResponse
    /\ users = << >>
    /\ contacts = << >>
    /\ auth = [sessions |-> {}, issued |-> 0, last_cleanup |-> 0]
    /\ limiter = << >>
    /\ open_db = 0

\* time passes
PassHours ==
    /\ now + HoursPerStep <= MaxHours
    /\ now' = now + HoursPerStep
    /\ UNCHANGED <<accounts, open_db, settings, conv, orders, payments, quote, response>>

\* the sessions dict is in a record of the service
Stored(id) == \E s \in auth.sessions : s.id = id
SessionOf(id) == CHOOSE s \in auth.sessions : s.id = id

\* what the operations on the sessions leave alone
AuthFrame == UNCHANGED <<users, contacts, limiter, open_db,
                         settings, now, conv, orders, payments, quote>>

\* AuthService.create_session: secrets.token_urlsafe gives a token that was
\* not issued before
create_session ==
    LET session_id == auth.issued + 1
    IN  /\ auth.issued < MaxSessions
        /\ auth' = [auth EXCEPT
                      !.issued = session_id,
                      !.sessions = @ \cup {[id            |-> session_id,
                                            created_at    |-> now,
                                            last_activity |-> now,
                                            expires_at    |-> now + SessionHours]}]
        /\ response' = Response("create_session", session_id, None, "session_id")
        /\ AuthFrame

\* verify_session, line 94, were the session a sliding one: the lifetime
\* starts again at every verification
TouchExtendingLifetime(session, t) ==
    [session EXCEPT !.last_activity = t, !.expires_at = t + SessionHours]

\* verify_session, line 94: the update of a session that was verified
Touch(session, t) == [session EXCEPT !.last_activity = t]

\* AuthService.verify_session
verify_session(session_id) ==
    /\ IF ~Stored(session_id)
       THEN /\ response' = Response("verify_session", session_id, None, None)
            /\ UNCHANGED auth
       ELSE IF now > SessionOf(session_id).expires_at
       THEN /\ auth' = [auth EXCEPT !.sessions = @ \ {SessionOf(session_id)}]
            /\ response' = Response("verify_session", session_id, None, None)
       ELSE /\ auth' = [auth EXCEPT !.sessions = (@ \ {SessionOf(session_id)})
                                        \cup {Touch(SessionOf(session_id), now)}]
            /\ response' = Response("verify_session", session_id, None, "session_data")
    /\ AuthFrame

\* AuthService.invalidate_session
invalidate_session(session_id) ==
    /\ auth' = [auth EXCEPT !.sessions = {s \in @ : s.id # session_id}]
    /\ response' = Response("invalidate_session", session_id, None, None)
    /\ AuthFrame

\* AuthService.cleanup_expired_sessions
cleanup_expired_sessions ==
    /\ IF now - auth.last_cleanup < CleanupIntervalHours
       THEN UNCHANGED auth
       ELSE auth' = [auth EXCEPT !.sessions = {s \in @ : ~(now > s.expires_at)},
                                 !.last_cleanup = now]
    /\ response' = Response("cleanup_expired_sessions", 0, None, None)
    /\ AuthFrame

NextAuth ==
    \/ PassHours
    \/ create_session
    \/ \E s \in 1..MaxSessions : verify_session(s)
    \/ \E s \in 1..MaxSessions : invalidate_session(s)
    \/ cleanup_expired_sessions

SpecAuth == InitAuth /\ [][NextAuth]_vars

\* the operation of this step answered op
Answers(op) == now' = now /\ response'.op = op

\* C28: verify_session gives session data only for a session that is stored
\* (created and not invalidated since) and not past its expires_at; a stored
\* session keeps created_at and expires_at = created_at + 8 hours whatever
\* is verified, a session enters the store only by create_session with a
\* token never issued before, and cleanup_expired_sessions removes only
\* sessions past their expires_at.
C28_SessionsExpireOnTime ==
    /\ [](\A s \in auth.sessions : s.expires_at = s.created_at + SessionHours)
    /\ [][ /\ (Answers("verify_session") /\ response'.answer # None) =>
                  /\ Stored(response'.target)
                  /\ ~(now > SessionOf(response'.target).expires_at)
           /\ \A s \in auth.sessions' :
                  IF Stored(s.id)
                  THEN /\ s.created_at = SessionOf(s.id).created_at
                       /\ s.expires_at = SessionOf(s.id).expires_at
                  ELSE Answers("create_session") /\ s.id > auth.issued
           /\ Answers("invalidate_session") => ~(\E s \in auth.sessions' : s.id = response'.target)
           /\ Answers("cleanup_expired_sessions") =>
                  \A s \in auth.sessions :
                      (\A k \in auth.sessions' : k.id # s.id) => now > s.expires_at
         ]_vars

\* a session verified after its creation and before its expiry: its
\* last_activity moved, its expires_at did not
C28_Witness ==
    /\ response.op = "verify_session"
    /\ response.answer = "session_data"
    /\ \E s \in auth.sessions : /\ s.id = response.target
                                /\ s.last_activity > s.created_at
                                /\ s.expires_at = s.created_at + SessionHours

(***************************************************************************)
(* The database sessions of the payment service and of the admin pages,    *)
(* over stored orders, with queries and commits that may raise.            *)
(***************************************************************************)
\* an admin page left its database session open and answered 500
PageFailed(page, db, detail) ==
    /\ open_db < MaxOpenDb
    /\ open_db' = open_db + 1
    /\ response' = Response(page, 0, db, detail)
    /\ UNCHANGED <<accounts, settings, now, conv, orders, payments, quote>>

\* admin_dashboard (GET /admin): the session is taken from get_db at line 180
\* and closed at line 196, after the queries.  Line 193 reads db.func, which
\* a Session does not have: the AttributeError, like a query that raises,
\* skips line 196, and the except clause of line 209 answers 500.
admin_dashboard(db) ==
    PageFailed("admin_dashboard", db, "500 Error loading dashboard")

\* admin_orders (GET /admin/orders): the session is taken at line 219 and
\* closed at line 224, after the query; a query that raises skips line 224
\* and the except clause answers 500.
admin_orders(db) ==
    IF db = "raise"
    THEN PageFailed("admin_orders", db, "500 Error loading orders")
    ELSE /\ response' = Response("admin_orders", 0, db, "200 admin_orders.html")
         /\ UNCHANGED <<accounts, open_db, settings, now, conv, orders, payments, quote>>

NextSessions ==
    \/ \E i \in 1..StoredOrders + 1, g \in {"created", "raise"}, sid \in SessionIds,
          db \in DbOutcomes : create_payment_link(i, g, sid, db)
    \/ \E i \in 1..StoredOrders + 1, g \in GatewayStatuses, db \in DbOutcomes :
          check_payment_status_by_order(i, g, db)
    \/ \E db \in DbOutcomes : admin_dashboard(db)
    \/ \E db \in DbOutcomes : admin_orders(db)

SpecSessions == InitLifecycle /\ [][NextSessions]_vars

\* C29: every database session opened by create_payment_link,
\* check_payment_status_by_order and the admin pages is closed when the
\* operation returns, also when a query or a commit raised: no operation
\* leaves a session open.
C29_SessionsClosedOnReturn == open_db = 0

(***************************************************************************)
(* RateLimiter.  In this specification a tick of the clock is one second;  *)
(* the calls are spaced by some seconds, by the window, or by a day.       *)
(***************************************************************************)
MaxRequests == 2
WindowSeconds == 60
DaySeconds == 86400

\* the calls are made within the first CallWindows windows of a day, over
\* MaxDayGaps days after the first one
CallWindows == 2
MaxDayGaps == 1
Gaps == {WindowSeconds \div 2, WindowSeconds, DaySeconds}

RateUsers == {"u_1", "u_2"}

\* timedelta.seconds of a difference that is not negative: the seconds left
\* once the whole days are taken out
TimedeltaSeconds(delta) == delta % DaySeconds

InitLimiter ==
    /\ settings = DefaultSettings
    /\ now = 0
    /\ conv = NoCustomers
    /\ orders = << >>
    /\ payments = {}
    /\ quote = None
    /\ response = NoResponse
    /\ users = << >>
    /\ contacts = << >>
    /\ auth = [sessions |-> {}, issued |-> 0, last_cleanup |-> 0]
    /\ limiter = [u \in {} |-> << >>]
    /\ open_db = 0

\* time passes
PassSeconds(gap) ==
    /\ (now + gap) \div DaySeconds <= MaxDayGaps
    /\ (now + gap) % DaySeconds <= CallWindows * WindowSeconds
    /\ now' = now + gap
    /\ UNCHANGED <<users, contacts, auth, limiter, open_db,
                   settings, conv, orders, payments, quote, response>>

\* self.requests[user_id], [] when the user made no call yet
RequestsOf(user_id) == IF user_id \in DOMAIN limiter THEN limiter[user_id] ELSE << >>

\* is_allowed, lines 1418-1421: the requests that are kept
RecentRequests(requests, t) ==
    LET recent(req_time) == TimedeltaSeconds(t - req_time) < WindowSeconds
    IN  SelectSeq(requests, recent)

\* RateLimiter.is_allowed
is_allowed(user_id) ==
    LET kept == RecentRequests(RequestsOf(user_id), now)
        stored(requests) ==
            limiter' = [u \in DOMAIN limiter \cup {user_id} |->
                           IF u = user_id THEN requests ELSE limiter[u]]
    IN  /\ IF Len(kept) < MaxRequests
           THEN /\ stored(Append(kept, now))
                /\ response' = Response("is_allowed", user_id, None, "True")
           ELSE /\ stored(kept)
                /\ response' = Response("is_allowed", user_id, None, "False")
        /\ UNCHANGED <<users, contacts, auth, open_db,
                       settings, now, conv, orders, payments, quote>>

NextLimiter ==
    \/ \E gap \in Gaps : PassSeconds(gap)
    \/ \E u \in RateUsers : is_allowed(u)

SpecLimiter == InitLimiter /\ [][NextLimiter]_vars

\* the admitted calls of a user that happened less than window_seconds
\* before t.  A request is dropped from the list only when its
\* timedelta.seconds reached the window, which its age then did as well, so
\* the list holds every admitted call that is this recent.
AdmittedInWindow(user_id, t) ==
    Cardinality({i \in 1..Len(RequestsOf(user_id)) :
                    t - RequestsOf(user_id)[i] < WindowSeconds})

\* C30: is_allowed(user) returns True exactly when fewer than max_requests of
\* the user's admitted calls happened less than window_seconds ago, whatever
\* the spacing of the calls; an admitted call is recorded and a refused call
\* is not.
C30_AllowedIffUnderLimit ==
    [][(now' = now /\ response'.op = "is_allowed") =>
          LET user_id == response'.target
          IN  /\ response'.answer = "True"
                    <=> AdmittedInWindow(user_id, now) < MaxRequests
              /\ response'.answer = "True" =>
                    /\ Len(limiter'[user_id]) > 0
                    /\ limiter'[user_id][Len(limiter'[user_id])] = now
              /\ response'.answer = "False" =>
                    limiter'[user_id] = RecentRequests(RequestsOf(user_id), now)
      ]_vars

====
